---------------------------- MODULE Spec2Model ----------------------------
(***************************************************************************)
(* A model of cookies-extra: the Cookie value class (parse, toString, the  *)
(* character validators), the change-tracked CookieMap (original and       *)
(* modified sequences, set / delete / clone / clear and the read           *)
(* operations) and writeSetCookieHeaders.                                  *)
(*                                                                         *)
(* A string is the sequence of its UTF-16 code units, each an integer:     *)
(* "a=1" is << 97, 61, 49 >>.  The comment beside a literal gives its text. *)
(***************************************************************************)
EXTENDS Integers, Sequences, FiniteSets, TLC

VARIABLES
    obj,    \* the CookieMap objects: the array each field refers to
    heap,   \* the arrays: originalCookies / modifiedCookies of the objects
    last,   \* the latest call: its operation, arguments and outcome
    latest, \* history: per map, the cookies of the set / delete calls that
            \* returned since construction or clear, the latest per name
    pushed, \* history: the entries the constructor of m pushed
    calls,  \* the number of calls made since construction
    generators \* the traversals opened on the maps: each one's position, what
            \* it has yielded, and (history) whether its map has changed since
            \* it began

vars == <<obj, heap, last, latest, pushed, calls, generators>>

-----------------------------------------------------------------------------
(* Strings: the String.prototype methods the library calls *)

Least(S) == CHOOSE i \in S : \A j \in S : i <= j
Greatest(S) == CHOOSE i \in S : \A j \in S : j <= i

\* The code units String.prototype.trim strips (WhiteSpace and LineTerminator).
IsWhiteSpace(c) ==
    c \in {9, 10, 11, 12, 13, 32, 160, 5760, 8232, 8233, 8239, 8287, 12288,
           65279} \cup (8192..8202)

\* s with everything outside the positions `keep` cut off both ends.
TrimTo(s, keep) ==
    IF keep = {} THEN << >> ELSE SubSeq(s, Least(keep), Greatest(keep))

\* s.trim()
trim(s) == TrimTo(s, {i \in 1..Len(s) : ~IsWhiteSpace(s[i])})

\* The 0-based index of the first of the 1-based positions `hits`, -1 if none.
FirstIndex(hits) == IF hits = {} THEN -1 ELSE Least(hits) - 1

\* s.indexOf(c) for a one-character c: 0-based, -1 when absent.
indexOf(s, c) == FirstIndex({i \in 1..Len(s) : s[i] = c})

\* s.includes(c)
includes(s, c) == \E i \in 1..Len(s) : s[i] = c

\* s.substring(from, to) and s.substring(from), 0-based, for 0 <= from <= to.
substring(s, from, to) == SubSeq(s, from + 1, to)

substringFrom(s, from) == SubSeq(s, from + 1, Len(s))

\* s.startsWith(c) for a one-character c.
startsWith(s, c) == Len(s) > 0 /\ s[1] = c

\* s.split(c) for a one-character separator c found first at index p.
RECURSIVE split(_, _)
SplitAt(s, c, p) ==
    IF p = -1 THEN << s >>
    ELSE << substring(s, 0, p) >> \o split(substringFrom(s, p + 1), c)

split(s, c) == SplitAt(s, c, indexOf(s, c))

\* parts.join(sep)
RECURSIVE join(_, _)
join(parts, sep) ==
    IF Len(parts) = 0 THEN << >>
    ELSE IF Len(parts) = 1 THEN parts[1]
    ELSE parts[1] \o sep \o join(Tail(parts), sep)

\* c.toLowerCase() of one code unit: A-Z and U+00C9 have a lower-case form
\* among the characters of the model, every other one maps to itself.
toLowerCaseChar(c) ==
    IF c >= 65 /\ c <= 90 THEN c + 32
    ELSE IF c = 201 THEN 233
    ELSE c

\* s.toLowerCase()
toLowerCase(s) == [i \in 1..Len(s) |-> toLowerCaseChar(s[i])]

-----------------------------------------------------------------------------
(* Numbers and dates *)

\* A JavaScript number is NaN or << n >> for an integer n.
NaN == << >>

isNaN(x) == x = NaN

IsDigit(c) == c >= 48 /\ c <= 57

\* The value of a string of decimal digits.
RECURSIVE DigitsValue(_)
DigitsValue(ds) ==
    IF Len(ds) = 0 THEN 0
    ELSE 10 * DigitsValue(SubSeq(ds, 1, Len(ds) - 1)) + (ds[Len(ds)] - 48)

\* The number of the digits found, negated after a "-"; NaN without a digit.
SignedValue(negative, digits) ==
    IF Len(digits) = 0 THEN NaN
    ELSE IF negative THEN << 0 - DigitsValue(digits) >>
    ELSE << DigitsValue(digits) >>

\* The digits are the longest prefix of decimal digits of body.
ParseDigits(negative, body) ==
    SignedValue(negative,
                SubSeq(body, 1,
                       Greatest({k \in 0..Len(body) :
                                    \A j \in 1..k : IsDigit(body[j])})))

\* parseInt of a string without leading white space: an optional sign, then
\* the digits.
ParseSigned(t) ==
    IF Len(t) > 0 /\ t[1] \in {43, 45}          \* "+", "-"
    THEN ParseDigits(t[1] = 45, Tail(t))
    ELSE ParseDigits(FALSE, t)

\* parseInt(s, 10): leading white space is skipped, then an optional sign and
\* the longest prefix of decimal digits; NaN when there is no digit.
parseInt(s) ==
    ParseSigned(SubSeq(s,
                       Least({k \in 1..(Len(s) + 1) :
                                 k = Len(s) + 1 \/ ~IsWhiteSpace(s[k])}),
                       Len(s)))

\* Number::toString of an integer (the template literal `${n}`).
RECURSIVE NatToString(_)
NatToString(n) ==
    IF n < 10 THEN << 48 + n >>
    ELSE NatToString(n \div 10) \o << 48 + (n % 10) >>

NumberToString(n) ==
    IF n < 0 THEN << 45 >> \o NatToString(0 - n) ELSE NatToString(n)

\* The HTTP dates of the model: the epoch and two weeks after it (1209600000
\* ms), both within the integers of the model checker.
\* "Thu, 01 Jan 1970 00:00:00 GMT"
DateEpoch == << 84, 104, 117, 44, 32, 48, 49, 32, 74, 97, 110, 32, 49, 57,
      55, 48, 32, 48, 48, 58, 48, 48, 58, 48, 48, 32, 71, 77, 84 >>
\* "Thu, 15 Jan 1970 00:00:00 GMT"
DateJan15 == << 84, 104, 117, 44, 32, 49, 53, 32, 74, 97, 110, 32, 49, 57,
      55, 48, 32, 48, 48, 58, 48, 48, 58, 48, 48, 32, 71, 77, 84 >>

\* Date.parse on the date strings of the model: the two HTTP dates, and NaN for
\* the text "soon", which no date grammar accepts.
DateParse(s) ==
    CASE s = DateEpoch -> << 0 >>
      [] s = DateJan15 -> << 1209600000 >>
      [] s = << 115, 111, 111, 110 >> -> NaN

\* new Date(ms).toUTCString() on the expiry times of the model; the
\* milliseconds within a second are not printed.
toUTCString(ms) ==
    CASE ms \div 1000 = 0 -> DateEpoch
      [] ms \div 1000 = 1209600 -> DateJan15

-----------------------------------------------------------------------------
(* encodeURIComponent and decodeURIComponent *)

\* The code unit of the upper-case hexadecimal digit of d in 0..15.
HexDigit(d) == IF d < 10 THEN 48 + d ELSE 55 + d

\* "%XX" for one octet.
PercentOctet(b) == << 37, HexDigit(b \div 16), HexDigit(b % 16) >>

\* uriUnescaped of encodeURIComponent: A-Z a-z 0-9 - _ . ! ~ * ' ( )
IsUriUnescaped(c) ==
    \/ c >= 65 /\ c <= 90
    \/ c >= 97 /\ c <= 122
    \/ c >= 48 /\ c <= 57
    \/ c \in {45, 95, 46, 33, 126, 42, 39, 40, 41}

IsHighSurrogate(c) == c >= 55296 /\ c <= 56319

IsLowSurrogate(c) == c >= 56320 /\ c <= 57343

\* The UTF-8 octets of a code point, each as "%XX".
Utf8Percent(cp) ==
    IF cp < 128 THEN PercentOctet(cp)
    ELSE IF cp < 2048 THEN
        PercentOctet(192 + (cp \div 64)) \o PercentOctet(128 + (cp % 64))
    ELSE IF cp < 65536 THEN
        PercentOctet(224 + (cp \div 4096))
          \o PercentOctet(128 + ((cp \div 64) % 64))
          \o PercentOctet(128 + (cp % 64))
    ELSE
        PercentOctet(240 + (cp \div 262144))
          \o PercentOctet(128 + ((cp \div 4096) % 64))
          \o PercentOctet(128 + ((cp \div 64) % 64))
          \o PercentOctet(128 + (cp % 64))

\* encodeURIComponent(s) throws a URIError on a surrogate that is not part of
\* a pair.
EncodeThrows(s) ==
    \E i \in 1..Len(s) :
        \/ IsHighSurrogate(s[i]) /\ ~(i < Len(s) /\ IsLowSurrogate(s[i + 1]))
        \/ IsLowSurrogate(s[i]) /\ ~(i > 1 /\ IsHighSurrogate(s[i - 1]))

\* The code point the character at the head of s stands for, and the number
\* of code units it takes.
CodePointAt(s) ==
    IF IsHighSurrogate(s[1])
    THEN 65536 + (s[1] - 55296) * 1024 + (s[2] - 56320)
    ELSE s[1]

UnitsAt(s) == IF IsHighSurrogate(s[1]) THEN 2 ELSE 1

\* encodeURIComponent(s), for s on which it does not throw.
RECURSIVE encodeURIComponent(_)
encodeURIComponent(s) ==
    IF Len(s) = 0 THEN << >>
    ELSE IF IsUriUnescaped(s[1]) THEN << s[1] >> \o encodeURIComponent(Tail(s))
    ELSE Utf8Percent(CodePointAt(s))
           \o encodeURIComponent(SubSeq(s, UnitsAt(s) + 1, Len(s)))

IsHexDigit(c) ==
    \/ c >= 48 /\ c <= 57
    \/ c >= 65 /\ c <= 70
    \/ c >= 97 /\ c <= 102

HexValue(c) == IF c <= 57 THEN c - 48 ELSE IF c <= 70 THEN c - 55 ELSE c - 87

\* Whether s holds an escape "%XX" at (1-based) position k, and its octet.
IsEscapeAt(s, k) ==
    k + 2 <= Len(s) /\ s[k] = 37 /\ IsHexDigit(s[k + 1]) /\ IsHexDigit(s[k + 2])

OctetAt(s, k) == 16 * HexValue(s[k + 1]) + HexValue(s[k + 2])

\* The number of octets of the UTF-8 sequence a leading octet announces; 0 for
\* an octet that cannot lead one (a continuation octet, or 0xF8 and above).
Utf8Length(b) ==
    IF b < 128 THEN 1
    ELSE IF b < 192 THEN 0
    ELSE IF b < 224 THEN 2
    ELSE IF b < 240 THEN 3
    ELSE IF b < 248 THEN 4
    ELSE 0

\* Whether the n - 1 escapes after the one at k are continuation octets.
ContinuationsOk(s, k, n) ==
    \A j \in 1..(n - 1) :
        IsEscapeAt(s, k + 3 * j) /\ OctetAt(s, k + 3 * j) \in 128..191

\* The bits of a UTF-8 sequence of n >= 2 octets starting at escape k.
Utf8Bits(s, k, n) ==
    IF n = 2 THEN (OctetAt(s, k) - 192) * 64 + (OctetAt(s, k + 3) - 128)
    ELSE IF n = 3 THEN
        (OctetAt(s, k) - 224) * 4096 + (OctetAt(s, k + 3) - 128) * 64
          + (OctetAt(s, k + 6) - 128)
    ELSE (OctetAt(s, k) - 240) * 262144 + (OctetAt(s, k + 3) - 128) * 4096
           + (OctetAt(s, k + 6) - 128) * 64 + (OctetAt(s, k + 9) - 128)

\* cp when an n-octet sequence may encode it, -1 otherwise: an overlong form,
\* a surrogate, a value above U+10FFFF.
Utf8Checked(cp, n) ==
    IF \/ cp < (IF n = 2 THEN 128 ELSE IF n = 3 THEN 2048 ELSE 65536)
       \/ cp > 1114111
       \/ (cp >= 55296 /\ cp <= 57343)
    THEN -1
    ELSE cp

\* The code point of a UTF-8 sequence of n >= 2 octets starting at escape k, or
\* -1 when the octets are not the UTF-8 encoding of a code point.
Utf8CodePoint(s, k, n) ==
    IF ContinuationsOk(s, k, n) THEN Utf8Checked(Utf8Bits(s, k, n), n) ELSE -1

\* The UTF-16 code units of a code point.
Utf16(cp) ==
    IF cp < 65536 THEN << cp >>
    ELSE << 55296 + ((cp - 65536) \div 1024), 56320 + ((cp - 65536) % 1024) >>

\* The outcome of decodeURIComponent: [ok |-> FALSE] when it throws a URIError,
\* otherwise [ok |-> TRUE, s |-> the decoded string].
Decoded(head, rest) ==
    IF rest.ok THEN [ok |-> TRUE, s |-> head \o rest.s] ELSE rest

RECURSIVE DecodeFrom(_, _)
\* The escape at k leads a sequence of n >= 2 octets for the code point cp.
DecodeCodePoint(s, k, n, cp) ==
    IF cp = -1 THEN [ok |-> FALSE]
    ELSE Decoded(Utf16(cp), DecodeFrom(s, k + 3 * n))

\* The escape at k announces a sequence of n octets.
DecodeEscape(s, k, n) ==
    IF n = 0 THEN [ok |-> FALSE]
    ELSE IF n = 1 THEN Decoded(<< OctetAt(s, k) >>, DecodeFrom(s, k + 3))
    ELSE DecodeCodePoint(s, k, n, Utf8CodePoint(s, k, n))

DecodeFrom(s, k) ==
    IF k > Len(s) THEN [ok |-> TRUE, s |-> << >>]
    ELSE IF s[k] # 37 THEN Decoded(<< s[k] >>, DecodeFrom(s, k + 1))
    ELSE IF ~IsEscapeAt(s, k) THEN [ok |-> FALSE]
    ELSE DecodeEscape(s, k, Utf8Length(OctetAt(s, k)))

decodeURIComponent(s) == DecodeFrom(s, 1)

-----------------------------------------------------------------------------
(* Cookie *)

\* A Cookie, and a CookieOptions, is a record with the fields name, value,
\* domain, path (strings), expires (an integer), secure, httpOnly, partitioned
\* (booleans), sameSite ("Strict", "Lax", "None") and maxAge (a number).  An
\* optional field that is left out of a CookieOptions is written as the falsy
\* value of its type (the empty string, 0 for expires, NaN for maxAge, FALSE,
\* "" for sameSite): the constructor reads every optional field through
\* `options.f || default` or `options.f && ...`, which treat both alike.

EMPTY_EXPIRES_VALUE == -1

\* A name check that lets the semicolon through (U+0021 to U+003C): C13 does
\* not hold of it.
SemicolonInCookieName(code) ==
    \/ code >= 33 /\ code <= 60
    \/ code >= 62 /\ code <= 126

isValidCharacterInCookieName(code) ==
    \/ code >= 33 /\ code <= 58
    \/ code = 60
    \/ code >= 62 /\ code <= 126

isValidCookieName(name) ==
    /\ Len(name) # 0
    /\ \A i \in 1..Len(name) : isValidCharacterInCookieName(name[i])

isValidCharacterInCookiePath(code) ==
    \/ code >= 32 /\ code <= 58
    \/ code >= 61 /\ code <= 126

isValidCookiePath(path) ==
    \A i \in 1..Len(path) : isValidCharacterInCookiePath(path[i])

isValidCharacterInCookieDomain(code) ==
    \/ code >= 97 /\ code <= 122
    \/ code >= 48 /\ code <= 57
    \/ code = 46
    \/ code = 45

isValidCookieDomain(domain) ==
    \A i \in 1..Len(domain) : isValidCharacterInCookieDomain(domain[i])

\* The constructor's three checks: which TypeError, if any, it throws.
CookieNameError(options) == ~isValidCookieName(options.name)

\* A constructor without the path check: C8 does not hold of it.
NoPathError(options) == FALSE

CookiePathError(options) ==
    options.path # << >> /\ ~isValidCookiePath(options.path)

\* A constructor without the domain check: C9 does not hold of it.
NoDomainError(options) == FALSE

CookieDomainError(options) ==
    options.domain # << >> /\ ~isValidCookieDomain(options.domain)

\* The fields the constructor assigns once the checks have passed.
NewCookie(options) ==
    [ name        |-> options.name,
      value       |-> options.value,
      domain      |-> options.domain,
      path        |-> IF options.path = << >> THEN << 47 >> ELSE options.path,
      expires     |-> IF options.expires = 0 THEN EMPTY_EXPIRES_VALUE
                      ELSE options.expires,
      secure      |-> options.secure,
      sameSite    |-> IF options.sameSite = "" THEN "Lax" ELSE options.sameSite,
      httpOnly    |-> options.httpOnly,
      maxAge      |-> IF isNaN(options.maxAge) \/ options.maxAge = << 0 >>
                      THEN NaN ELSE options.maxAge,
      partitioned |-> options.partitioned ]

\* A call that throws a TypeError, and one that returns a Cookie.
Throw(error) == [threw |-> TRUE, error |-> error]

\* Cookie.create(options), that is new Cookie(options).
CookieCreate(options) ==
    IF CookieNameError(options) THEN Throw("Invalid cookie name")
    ELSE IF CookiePathError(options) THEN Throw("Invalid cookie path")
    ELSE IF CookieDomainError(options) THEN Throw("Invalid cookie domain")
    ELSE [threw |-> FALSE, cookie |-> NewCookie(options)]

\* The options { name, value } with every other field left out.
NameValueOptions(name, value) ==
    [ name |-> name, value |-> value, domain |-> << >>, path |-> << >>,
      expires |-> 0, secure |-> FALSE, sameSite |-> "", httpOnly |-> FALSE,
      maxAge |-> NaN, partitioned |-> FALSE ]

\* The local variables of Cookie.parse before its loop over the attributes.
ParseLocals ==
    [ domain |-> << >>, path |-> << 47 >>, expires |-> EMPTY_EXPIRES_VALUE,
      secure |-> FALSE, sameSite |-> "Lax", httpOnly |-> FALSE,
      maxAge |-> NaN, partitioned |-> FALSE, hasMaxAge |-> FALSE ]

\* case "expires", with parsed = Date.parse(attributeValue)
ApplyExpires(acc, parsed) ==
    IF ~isNaN(parsed) THEN [acc EXCEPT !.expires = parsed[1]] ELSE acc

\* case "max-age", with parsedMaxAge = parseInt(attributeValue, 10)
ApplyMaxAge(acc, parsedMaxAge) ==
    IF ~isNaN(parsedMaxAge)
    THEN [acc EXCEPT !.maxAge = parsedMaxAge, !.hasMaxAge = TRUE]
    ELSE acc

\* case "samesite", with lowerValue = attributeValue.toLowerCase():
\* "strict", "lax", "none"
ApplySameSite(acc, lowerValue) ==
    IF lowerValue = << 115, 116, 114, 105, 99,
          116 >> THEN [acc EXCEPT !.sameSite = "Strict"]
    ELSE IF lowerValue = << 108, 97,
          120 >> THEN [acc EXCEPT !.sameSite = "Lax"]
    ELSE IF lowerValue = << 110, 111, 110,
          101 >> THEN [acc EXCEPT !.sameSite = "None"]
    ELSE acc

\* The switch on the attribute's name.  The cases, in order: "domain", "path",
\* "expires", "max-age", "secure", "httponly", "partitioned", "samesite".
ApplyAttribute(acc, attributeName, attributeValue) ==
    CASE attributeName = << 100, 111, 109, 97, 105, 110 >> ->
           IF attributeValue # << >>
           THEN [acc EXCEPT !.domain = toLowerCase(attributeValue)]
           ELSE acc
      [] attributeName = << 112, 97, 116, 104 >> ->
           IF attributeValue # << >> /\ startsWith(attributeValue, 47)
           THEN [acc EXCEPT !.path = attributeValue]
           ELSE acc
      [] attributeName = << 101, 120, 112, 105, 114, 101, 115 >> ->
           IF ~acc.hasMaxAge /\ attributeValue # << >>
           THEN ApplyExpires(acc, DateParse(attributeValue))
           ELSE acc
      [] attributeName = << 109, 97, 120, 45, 97, 103, 101 >> ->
           ApplyMaxAge(acc, parseInt(attributeValue))
      [] attributeName = << 115, 101, 99, 117, 114,
            101 >> -> [acc EXCEPT !.secure = TRUE]
      [] attributeName = << 104, 116, 116, 112, 111, 110, 108,
            121 >> -> [acc EXCEPT !.httpOnly = TRUE]
      [] attributeName = << 112, 97, 114, 116, 105, 116, 105, 111, 110, 101,
            100 >> -> [acc EXCEPT !.partitioned = TRUE]
      [] attributeName = << 115, 97, 109, 101, 115, 105, 116, 101 >> ->
           ApplySameSite(acc, toLowerCase(attributeValue))
      [] OTHER -> acc

\* The split of the trimmed attribute at its first "=", if it has one.
SplitAttribute(acc, trimmedAttribute, assignmentPos) ==
    IF assignmentPos # -1
    THEN ApplyAttribute(acc,
             toLowerCase(trim(substring(trimmedAttribute, 0, assignmentPos))),
             trim(substringFrom(trimmedAttribute, assignmentPos + 1)))
    ELSE ApplyAttribute(acc, toLowerCase(trimmedAttribute), << >>)

TrimmedAttribute(acc, trimmedAttribute) ==
    SplitAttribute(acc, trimmedAttribute, indexOf(trimmedAttribute, 61))

\* One iteration of the loop over the attributes.
ParseAttribute(acc, attribute) == TrimmedAttribute(acc, trim(attribute))

\* The loop over the attributes, first to last.
RECURSIVE ParseAttributes(_, _)
ParseAttributes(acc, attributes) ==
    IF Len(attributes) = 0 THEN acc
    ELSE ParseAttributes(ParseAttribute(acc, attributes[1]), Tail(attributes))

\* The final Cookie.create of Cookie.parse.
ParseCreate(name, value, acc) ==
    CookieCreate([ name |-> name, value |-> value, domain |-> acc.domain,
                   path |-> acc.path, expires |-> acc.expires,
                   secure |-> acc.secure, sameSite |-> acc.sameSite,
                   httpOnly |-> acc.httpOnly, maxAge |-> acc.maxAge,
                   partitioned |-> acc.partitioned ])

\* Cookie.parse from the check of the name on.
ParseNamed(cookieString, firstSemicolonPos, name, value) ==
    IF Len(name) = 0 THEN Throw("Invalid cookie string: name cannot be empty")
    ELSE ParseCreate(name, value,
             IF firstSemicolonPos # -1
             THEN ParseAttributes(ParseLocals,
                      split(substringFrom(cookieString, firstSemicolonPos + 1),
                            59))
             ELSE ParseLocals)

\* Cookie.parse from the search for the "=" of the cookie pair on.
ParseCookiePair(cookieString, firstSemicolonPos, cookiePair, firstEqualsPos) ==
    IF firstEqualsPos = -1 THEN Throw("Invalid cookie string: no '=' found")
    ELSE ParseNamed(cookieString, firstSemicolonPos,
                    trim(substring(cookiePair, 0, firstEqualsPos)),
                    trim(substringFrom(cookiePair, firstEqualsPos + 1)))

ParseUpTo(cookieString, firstSemicolonPos, cookiePair) ==
    ParseCookiePair(cookieString, firstSemicolonPos, cookiePair,
                    indexOf(cookiePair, 61))

\* Cookie.parse from the search for the first ";" on.
ParseFrom(cookieString, firstSemicolonPos) ==
    ParseUpTo(cookieString, firstSemicolonPos,
              IF firstSemicolonPos = -1 THEN cookieString
              ELSE substring(cookieString, 0, firstSemicolonPos))

\* Cookie.parse(cookieString): Throw(error) or
\* [threw |-> FALSE, cookie |-> the Cookie].
CookieParse(cookieString) ==
    IF Len(cookieString) < 2 THEN Throw("Invalid cookie string: empty")
    ELSE ParseFrom(cookieString, indexOf(cookieString, 59))

\* cookie.hasExpiry()
hasExpiry(cookie) ==
    cookie.expires # EMPTY_EXPIRES_VALUE /\ cookie.expires >= 1

\* The text of a CookieSameSite value: "Strict", "Lax", "None".
SameSiteText(sameSite) ==
    CASE sameSite = "Strict" -> << 83, 116, 114, 105, 99, 116 >>
      [] sameSite = "Lax" -> << 76, 97, 120 >>
      [] sameSite = "None" -> << 78, 111, 110, 101 >>

\* cookie.toString() throws when encodeURIComponent does.
ToStringThrows(cookie) == EncodeThrows(cookie.value)

\* cookie.toString(), the Set-Cookie form, when it does not throw.  The parts:
\* name=value, "Domain=", "Path=", "Expires=", "Max-Age=", "Secure",
\* "HttpOnly", "Partitioned", "SameSite=", joined by "; ".
CookieToString(cookie) ==
    join(<< cookie.name \o << 61 >> \o encodeURIComponent(cookie.value) >>
         \o (IF cookie.domain # << >>
             THEN << << 68, 111, 109, 97, 105, 110, 61 >> \o cookie.domain >>
             ELSE << >>)
         \o (IF cookie.path # << >>
             THEN << << 80, 97, 116, 104, 61 >> \o cookie.path >>
             ELSE << >>)
         \o (IF hasExpiry(cookie)
             THEN << << 69, 120, 112, 105, 114, 101, 115,
                   61 >> \o toUTCString(cookie.expires) >>
             ELSE << >>)
         \o (IF ~isNaN(cookie.maxAge)
             THEN << << 77, 97, 120, 45, 65, 103, 101,
                   61 >> \o NumberToString(cookie.maxAge[1]) >>
             ELSE << >>)
         \o (IF cookie.secure THEN << << 83, 101, 99, 117, 114,
               101 >> >> ELSE << >>)
         \o (IF cookie.httpOnly THEN << << 72, 116, 116, 112, 79, 110, 108,
               121 >> >> ELSE << >>)
         \o (IF cookie.partitioned THEN << << 80, 97, 114, 116, 105, 116,
               105, 111, 110, 101, 100 >> >> ELSE << >>)
         \o << << 83, 97, 109, 101, 83, 105, 116, 101,
               61 >> \o SameSiteText(cookie.sameSite) >>,
         << 59, 32 >>)

-----------------------------------------------------------------------------
(* Plain objects used as string-keyed records (the result of toJSON) *)

\* `undefined`, and a value inherited from Object.prototype: neither is a
\* string, as no code unit is negative.
Undefined == << -1 >>

Inherited == << -2 >>

\* "__proto__"
ProtoKey == << 95, 95, 112, 114, 111, 116, 111, 95, 95 >>

\* The property names every plain object inherits from Object.prototype:
\* constructor, __defineGetter__, __defineSetter__, hasOwnProperty,
\* __lookupGetter__, __lookupSetter__, isPrototypeOf, propertyIsEnumerable,
\* toString, valueOf, __proto__, toLocaleString.
ObjectPrototypeKeys ==
    { << 99, 111, 110, 115, 116, 114, 117, 99, 116, 111, 114 >>,
      << 95, 95, 100, 101, 102, 105, 110, 101, 71, 101, 116, 116, 101, 114,
            95, 95 >>,
      << 95, 95, 100, 101, 102, 105, 110, 101, 83, 101, 116, 116, 101, 114,
            95, 95 >>,
      << 104, 97, 115, 79, 119, 110, 80, 114, 111, 112, 101, 114, 116, 121 >>,
      << 95, 95, 108, 111, 111, 107, 117, 112, 71, 101, 116, 116, 101, 114,
            95, 95 >>,
      << 95, 95, 108, 111, 111, 107, 117, 112, 83, 101, 116, 116, 101, 114,
            95, 95 >>,
      << 105, 115, 80, 114, 111, 116, 111, 116, 121, 112, 101, 79, 102 >>,
      << 112, 114, 111, 112, 101, 114, 116, 121, 73, 115, 69, 110, 117, 109,
            101, 114, 97, 98, 108, 101 >>,
      << 116, 111, 83, 116, 114, 105, 110, 103 >>,
      << 118, 97, 108, 117, 101, 79, 102 >>,
      << 95, 95, 112, 114, 111, 116, 111, 95, 95 >>,
      << 116, 111, 76, 111, 99, 97, 108, 101, 83, 116, 114, 105, 110, 103 >> }

\* An object's own properties are a function from keys to values; {} has none.
EmptyObject == [k \in {} |-> << >>]

\* key in object
ObjIn(object, key) == key \in DOMAIN object \/ key \in ObjectPrototypeKeys

\* object[key] = value for a string value.  "__proto__" is an accessor of
\* Object.prototype: assigning a string to it sets nothing.
ObjSet(object, key, value) ==
    IF key = ProtoKey /\ key \notin DOMAIN object THEN object
    ELSE [k \in DOMAIN object \cup {key} |->
            IF k = key THEN value ELSE object[k]]

\* object[key]
ObjGet(object, key) ==
    IF key \in DOMAIN object THEN object[key]
    ELSE IF key \in ObjectPrototypeKeys THEN Inherited
    ELSE Undefined

-----------------------------------------------------------------------------
(* CookieMap: the objects and their arrays *)

\* The CookieMap objects of the model: m, and c for a clone.
MapIds == {"m", "c"}

\* The arrays live in numbered slots; a field holds the slot of its array, 0
\* before the object is constructed.  Which slot an array gets is not
\* observable: a new array takes the lowest slot no field refers to, and an
\* array no field refers to any more is dropped.
Slots == 1..(2 * Cardinality(MapIds))

Fields == {"originalCookies", "modifiedCookies"}

NoObject == [alive |-> FALSE, originalCookies |-> 0, modifiedCookies |-> 0]

Referenced(st) == {st.obj[i][f] : i \in MapIds, f \in Fields} \ {0}

Collect(st) ==
    [st EXCEPT !.heap = [a \in Slots |->
                            IF a \in Referenced(st) THEN st.heap[a] ELSE << >>]]

\* The array is put into the lowest free slot and the field made to refer to
\* it.
StoreFree(st, i, field, array) ==
    [obj  |-> [st.obj EXCEPT ![i][field] = Least(Slots \ Referenced(st))],
     heap |-> [st.heap EXCEPT ![Least(Slots \ Referenced(st))] = array]]

\* this[field] = array, for a newly created array: the field lets go of its
\* old array first.
Store(st, i, field, array) ==
    StoreFree(Collect([st EXCEPT !.obj[i][field] = 0]), i, field, array)

\* this[field].push(x): the array is changed in place.
Push(st, i, field, x) ==
    [st EXCEPT !.heap[st.obj[i][field]] = Append(@, x)]

\* The arrays of map i.
OriginalOf(st, i) == st.heap[st.obj[i].originalCookies]

ModifiedOf(st, i) == st.heap[st.obj[i].modifiedCookies]

-----------------------------------------------------------------------------
(* CookieMap: construction *)

\* A constructor input is [kind |-> "none"], [kind |-> "string", s |-> text],
\* [kind |-> "array", pairs |-> a sequence of tuples of strings] or [kind |->
\* "record", entries |-> the own properties as key/value pairs, keys distinct].

\* The outcome of a loop that pushes entries: whether an exception escaped it
\* and the entries pushed, in order.
Pushed(entries) == [threw |-> FALSE, pushed |-> entries]

\* The try block of parseFromCookieString once both decodeURIComponent calls
\* are made: the URIError of a failing one escapes the block.
TryBlock(name, value) ==
    IF name.ok /\ value.ok
    THEN [threw |-> FALSE, name |-> name.s, value |-> value.s]
    ELSE [threw |-> TRUE]

TryDecode(nameView, valueView) ==
    TryBlock(decodeURIComponent(nameView), decodeURIComponent(valueView))

\* A loop pass without the catch block, the URIError escaping: C10 does not
\* hold of it.
Rethrow(decoded, nameView, valueView) ==
    IF decoded.threw THEN [threw |-> TRUE, pushed |-> << >>]
    ELSE [threw |-> FALSE,
          pushed |-> << [key |-> decoded.name, value |-> decoded.value] >>]

\* The catch block stores the raw views; then the entry is pushed.
CatchDecode(decoded, nameView, valueView) ==
    IF decoded.threw
    THEN Pushed(<< [key |-> nameView, value |-> valueView] >>)
    ELSE Pushed(<< [key |-> decoded.name, value |-> decoded.value] >>)

\* One pass of the loop of parseFromCookieString from the check of the name on.
PairViews(nameView, valueView, hasPercentEncoded) ==
    IF nameView = << >> THEN Pushed(<< >>)
    ELSE IF hasPercentEncoded
    THEN CatchDecode(TryDecode(nameView, valueView), nameView, valueView)
    ELSE Pushed(<< [key |-> nameView, value |-> valueView] >>)

PairAt(pair, hasPercentEncoded, equalsPos) ==
    IF equalsPos = -1 THEN Pushed(<< >>)
    ELSE PairViews(trim(substring(pair, 0, equalsPos)),
                   trim(substringFrom(pair, equalsPos + 1)),
                   hasPercentEncoded)

\* One pass of the loop of parseFromCookieString, for one ";"-separated
\* segment.
ParsePair(pair, hasPercentEncoded) ==
    PairAt(pair, hasPercentEncoded, indexOf(pair, 61))

\* The loop continues after a pass unless an exception escaped it.
RECURSIVE ParsePairs(_, _)
ThenPairs(first, rest, hasPercentEncoded) ==
    IF first.threw THEN first
    ELSE [ParsePairs(rest, hasPercentEncoded) EXCEPT
            !.pushed = first.pushed \o @]

ParsePairs(pairs, hasPercentEncoded) ==
    IF Len(pairs) = 0 THEN Pushed(<< >>)
    ELSE ThenPairs(ParsePair(pairs[1], hasPercentEncoded), Tail(pairs),
                   hasPercentEncoded)

\* parseFromCookieString: the pairs are split at ";", "%" anywhere in the
\* string turns decoding on.
parseFromCookieString(cookieString) ==
    IF trim(cookieString) = << >> THEN Pushed(<< >>)
    ELSE ParsePairs(split(cookieString, 59), includes(cookieString, 37))

\* parseFromArray: a tuple of length 2 is pushed, any other is skipped.
RECURSIVE ArrayEntries(_)
ArrayEntries(pairs) ==
    IF Len(pairs) = 0 THEN << >>
    ELSE (IF Len(pairs[1]) = 2
          THEN << [key |-> pairs[1][1], value |-> pairs[1][2]] >>
          ELSE << >>)
           \o ArrayEntries(Tail(pairs))

parseFromArray(pairs) == Pushed(ArrayEntries(pairs))

\* parseFromRecord: every own property is pushed.
parseFromRecord(entries) ==
    Pushed([k \in 1..Len(entries) |->
               [key |-> entries[k].key, value |-> entries[k].value]])

\* initialize(input); the constructor skips it when there is no input.
initialize(input) ==
    CASE input.kind = "none" -> Pushed(<< >>)
      [] input.kind = "string" -> parseFromCookieString(input.s)
      [] input.kind = "array" -> parseFromArray(input.pairs)
      [] input.kind = "record" -> parseFromRecord(input.entries)

RECURSIVE PushAll(_, _, _, _)
PushAll(st, i, field, xs) ==
    IF Len(xs) = 0 THEN st
    ELSE PushAll(Push(st, i, field, xs[1]), i, field, Tail(xs))

\* The field initialisers of a new CookieMap i: two new empty arrays.
Fresh(st, i) ==
    Store(Store([st EXCEPT !.obj[i] = [NoObject EXCEPT !.alive = TRUE]],
                i, "originalCookies", << >>),
          i, "modifiedCookies", << >>)

\* The constructor once initialize has run with outcome r: its entries are
\* on originalCookies; when it threw, no object is made.
Constructed(st, i, r) ==
    IF r.threw THEN Collect([st EXCEPT !.obj[i] = NoObject])
    ELSE PushAll(Fresh(st, i), i, "originalCookies", r.pushed)

\* i = new CookieMap(input)
Construct(st, i, input) == Constructed(st, i, initialize(input))

-----------------------------------------------------------------------------
(* CookieMap: reading *)

\* modifiedCookies.findIndex((cookie) => cookie.name === name) and
\* originalCookies.findIndex((cookie) => cookie.key === name): 0-based, -1
\* when no element passes.
findIndexName(array, name) ==
    FirstIndex({k \in 1..Len(array) : array[k].name = name})

findIndexKey(array, name) ==
    FirstIndex({k \in 1..Len(array) : array[k].key = name})

\* get once both indices are known.
GetAt(modified, original, modifiedCookieIndex, originalCookieIndex) ==
    IF modifiedCookieIndex # -1
    THEN IF modified[modifiedCookieIndex + 1].value = << >> THEN Undefined
         ELSE modified[modifiedCookieIndex + 1].value
    ELSE IF originalCookieIndex # -1
    THEN original[originalCookieIndex + 1].value
    ELSE Undefined

GetIn(modified, original, name) ==
    GetAt(modified, original, findIndexName(modified, name),
          findIndexKey(original, name))

\* get(name): the value, or Undefined.
get(st, i, name) == GetIn(ModifiedOf(st, i), OriginalOf(st, i), name)

\* has(name)
has(st, i, name) == get(st, i, name) # Undefined

\* if (cookie.value)
HasValue(cookie) == cookie.value # << >>

\* The cookies as key/value pairs.
PairsOf(cookies) ==
    [k \in 1..Len(cookies) |->
        [key |-> cookies[k].name, value |-> cookies[k].value]]

\* The modified cookies with a non-empty value, as key/value pairs.
ModifiedPairs(modified) == PairsOf(SelectSeq(modified, HasValue))

\* getAll()
getAll(st, i) == ModifiedPairs(ModifiedOf(st, i)) \o OriginalOf(st, i)

\* size()
size(st, i) ==
    Len(SelectSeq(ModifiedOf(st, i), HasValue)) + Len(OriginalOf(st, i))

\* The first loop of toJSON: result[cookie.name] = cookie.value.
RECURSIVE JsonModified(_, _)
JsonModified(result, modified) ==
    IF Len(modified) = 0 THEN result
    ELSE JsonModified(
            IF HasValue(modified[1])
            THEN ObjSet(result, modified[1].name, modified[1].value)
            ELSE result,
            Tail(modified))

\* The second loop of toJSON: only a key not `in` result is written.
RECURSIVE JsonOriginal(_, _)
JsonOriginal(result, original) ==
    IF Len(original) = 0 THEN result
    ELSE JsonOriginal(
            IF ~ObjIn(result, original[1].key)
            THEN ObjSet(result, original[1].key, original[1].value)
            ELSE result,
            Tail(original))

\* toJSON(): the own properties of the object returned.
toJSON(st, i) ==
    JsonOriginal(JsonModified(EmptyObject, ModifiedOf(st, i)),
                 OriginalOf(st, i))

\* [...array]: a new array with the same elements.
Spread(array) == [k \in 1..Len(array) |-> array[k]]

\* getAllChanges(): a copy of modifiedCookies.
getAllChanges(st, i) == Spread(ModifiedOf(st, i))

-----------------------------------------------------------------------------
(* CookieMap: mutation *)

\* array.filter((cookie) => cookie.key !== name) and
\* array.filter((cookie) => cookie.name !== name): a new array.
filterKey(array, name) ==
    LET KeyDiffers(cookie) == cookie.key # name
    IN  SelectSeq(array, KeyDiffers)

filterName(array, name) ==
    LET NameDiffers(cookie) == cookie.name # name
    IN  SelectSeq(array, NameDiffers)

\* A removeInternal that leaves originalCookies alone: C1 does not hold of it.
KeepOriginal(st, i, name) == st

\* The two assignments of removeInternal.
RemoveOriginal(st, i, name) ==
    Store(st, i, "originalCookies", filterKey(OriginalOf(st, i), name))

\* A removeInternal that empties modifiedCookies: C16 does not hold of it.
ResetModified(st, i, name) == Store(st, i, "modifiedCookies", << >>)

RemoveModified(st, i, name) ==
    Store(st, i, "modifiedCookies", filterName(ModifiedOf(st, i), name))

\* removeInternal(name): both fields get a new, filtered array.
removeInternal(st, i, name) ==
    RemoveModified(RemoveOriginal(st, i, name), i, name)

\* The result of a call: the state it leaves, whether it threw, and what it
\* returned (Undefined for void).
Returned(st, ret) == [st |-> st, threw |-> FALSE, ret |-> ret]

Threw(st) == [st |-> st, threw |-> TRUE, ret |-> Undefined]

\* set(cookie)
setCookie(st, i, cookie) ==
    Returned(Push(removeInternal(st, i, cookie.name), i, "modifiedCookies",
                  cookie),
             Undefined)

\* set(name, value) once Cookie.create has run: when it threw, nothing has
\* been removed yet.
SetCreated(st, i, created) ==
    IF created.threw THEN Threw(st) ELSE setCookie(st, i, created.cookie)

\* set(name, value)
setNameValue(st, i, name, value) ==
    SetCreated(st, i, CookieCreate(NameValueOptions(name, value)))

\* set(name) with the value left out: the Error is thrown first.
setNameOnly(st, i, name) == Threw(st)

\* The options of the delete marker for delete(name) or delete({name, domain,
\* path}); a string argument is the options with domain and path left out.
DeleteOptions(opts) ==
    [ name |-> opts.name, value |-> << >>, domain |-> opts.domain,
      path |-> IF opts.path = << >> THEN << 47 >> ELSE opts.path,
      expires |-> 1, secure |-> FALSE, sameSite |-> "Lax",
      httpOnly |-> FALSE, maxAge |-> NaN, partitioned |-> FALSE ]

\* A delete that looks for the cookie after its removal: C11 does not hold of
\* it.
DeletedThenLooked(i, hadCookie, removed, created) ==
    IF created.threw THEN Threw(removed)
    ELSE Returned(Push(removed, i, "modifiedCookies", created.cookie),
                  has(removed, i, created.cookie.name))

\* A delete that pushes no marker: C3 does not hold of it.
DeletedUnmarked(i, hadCookie, removed, created) ==
    IF created.threw THEN Threw(removed) ELSE Returned(removed, hadCookie)

\* delete once has, removeInternal and Cookie.create have run, in this order:
\* when the creation of the marker threw, the removal has already happened.
Deleted(i, hadCookie, removed, created) ==
    IF created.threw THEN Threw(removed)
    ELSE Returned(Push(removed, i, "modifiedCookies", created.cookie),
                  hadCookie)

\* delete(nameOrOptions)
delete(st, i, opts) ==
    Deleted(i, has(st, i, opts.name), removeInternal(st, i, opts.name),
            CookieCreate(DeleteOptions(opts)))

\* The two assignments of clone.
CloneOriginal(st, i, j) ==
    Store(st, j, "originalCookies", Spread(OriginalOf(st, i)))

\* A clone that does not copy modifiedCookies: C5 does not hold of it.
CloneWithoutModified(st, i, j) == st

CloneModified(st, i, j) ==
    Store(st, j, "modifiedCookies", Spread(ModifiedOf(st, i)))

\* j = i.clone(): a new CookieMap whose fields are then set to copies of i's
\* arrays.
clone(st, i, j) ==
    CloneModified(CloneOriginal(Fresh(st, j), i, j),
                  i, j)

\* clear(): both fields get a new empty array.
clear(st, i) ==
    Store(Store(st, i, "originalCookies", << >>), i, "modifiedCookies", << >>)

-----------------------------------------------------------------------------
(* parsers.ts *)

\* writeSetCookieHeaders(cookieMap, headers): the Set-Cookie headers after the
\* call, given those before it; threw when a toString throws (the headers
\* appended before it stay).
RECURSIVE AppendSetCookie(_, _)
AppendSetCookie(headers, changes) ==
    IF Len(changes) = 0 THEN [threw |-> FALSE, headers |-> headers]
    ELSE IF ToStringThrows(changes[1]) THEN [threw |-> TRUE, headers |-> headers]
    ELSE AppendSetCookie(Append(headers, CookieToString(changes[1])),
                         Tail(changes))

writeSetCookieHeaders(st, i, headers) ==
    AppendSetCookie(headers, getAllChanges(st, i))

-----------------------------------------------------------------------------
(* The inputs of the calls *)

\* The names "a" and "b", and "a b", which no cookie may have.
NameA == << 97 >>

NameB == << 98 >>

BadName == << 97, 32, 98 >>

Names == {NameA, NameB, ProtoKey, BadName}

\* The values of set(name, value): "" and "2".
SetValues == { << >>, << 50 >> }

\* The constructor inputs: none; the string "a=1; a=3;b=1"; the array
\* [["a", "1"], ["a", "1", "x"], ["__proto__", "1"]]; the record
\* { b: "1", "a b": "1" }.
ConstructorInputs ==
    { [kind |-> "none"],
      [kind |-> "string", s |-> << 97, 61, 49, 59, 32, 97, 61, 51, 59, 98,
            61, 49 >>],
      [kind |-> "array",
       pairs |-> << << NameA, << 49 >> >>, << NameA, << 49 >>, << 120 >> >>,
                    << ProtoKey, << 49 >> >> >>],
      [kind |-> "record",
       entries |-> << [key |-> NameB, value |-> << 49 >>],
                      [key |-> BadName, value |-> << 49 >>] >>] }

\* The arguments of delete, for every name: the name alone, with the domain
\* "x.y" and the path "/p", with the domain "X.y" (no cookie may have it), with
\* the path "/<" (no cookie may have it).
DeleteArgs ==
    UNION { { [name |-> n, domain |-> << >>, path |-> << >>],
              [name |-> n, domain |-> << 120, 46, 121 >>, path |-> << 47,
                    112 >>],
              [name |-> n, domain |-> << 88, 46, 121 >>, path |-> << >>],
              [name |-> n, domain |-> << >>, path |-> << 47,
                    60 >>] } : n \in Names }

\* The options of the caller's Cookie.create: a cookie "a" with every
\* attribute ("1", "x.y", "/p", expires two weeks after the epoch, Max-Age
\* 60); "b" with the value "v w"; "b" with the domain "X.y"; "b" whose value
\* is a lone surrogate.
CreateOptions ==
    { [ name |-> NameA, value |-> << 49 >>, domain |-> << 120, 46, 121 >>,
          path |-> << 47, 112 >>,
        expires |-> 1209600000, secure |-> TRUE, sameSite |-> "None",
        httpOnly |-> TRUE, maxAge |-> << 60 >>, partitioned |-> TRUE ],
      NameValueOptions(NameB, << 118, 32, 119 >>),
      [NameValueOptions(NameB, << 49 >>) EXCEPT !.domain = << 88, 46, 121 >>],
      NameValueOptions(NameB, << 55357 >>) }

\* The strings of the caller's Cookie.parse: "b=3; Domain=X.y; Max-Age=0",
\* "b=3; Path=/<" and "b".
ParseStrings ==
    { << 98, 61, 51, 59, 32, 68, 111, 109, 97, 105, 110, 61, 88, 46, 121, 59,
          32, 77, 97, 120, 45, 65, 103, 101, 61, 48 >>,
      << 98, 61, 51, 59, 32, 80, 97, 116, 104, 61, 47, 60 >>,
      << 98 >> }

\* The Set-Cookie headers a Headers object holds before
\* writeSetCookieHeaders: none, or "x=1".
HeadersBefore == { << >>, << << 120, 61, 49 >> >> }

-----------------------------------------------------------------------------
(* The CookieMap machine: its calls *)

\* The number of calls a run makes after the construction of m.
MaxCalls == 3

St == [obj |-> obj, heap |-> heap]

\* Every call on a map or on the Cookie class counts.
Call == calls < MaxCalls /\ calls' = calls + 1

NoState ==
    [obj |-> [i \in MapIds |-> NoObject], heap |-> [a \in Slots |-> << >>]]

Alive(i) == obj[i].alive

\* The history after a call that created `cookie` returned: the cookie is the
\* latest call's, any earlier one of that name is superseded.
Supersede(log, cookie) == Append(filterName(log, cookie.name), cookie)

\* The outcome of a Cookie.create or Cookie.parse, as `last` records it.
Outcome(op, input, r) ==
    [op |-> op, input |-> input, threw |-> r.threw,
     cookies |-> IF r.threw THEN << >> ELSE << r.cookie >>]

\* m = new CookieMap(input), its initialize having had the outcome r
Constructing(input, r, st) ==
    /\ obj = st.obj
    /\ heap = st.heap
    /\ last = [op |-> "new", map |-> "m", input |-> input, threw |-> r.threw]
    /\ latest = [i \in MapIds |-> << >>]
    /\ pushed = r.pushed
    /\ calls = 0
    /\ generators = << >>

Initializing(input, r) == Constructing(input, r, Constructed(NoState, "m", r))

Init == \E input \in ConstructorInputs : Initializing(input, initialize(input))

\* The history of the traversals after a call on map i that leaves the state
\* st: a traversal of i that has begun is no longer one of an unchanged map
\* when the call has changed a sequence of i.
Disturbed(i, st) ==
    [k \in 1..Len(generators) |->
        IF /\ generators[k].map = i
           /\ generators[k].phase # "start"
           /\ \/ OriginalOf(st, i) # OriginalOf(St, i)
              \/ ModifiedOf(st, i) # ModifiedOf(St, i)
        THEN [generators[k] EXCEPT !.clean = FALSE]
        ELSE generators[k]]

\* The set or delete call r on map i is over; `created` is the outcome of the
\* Cookie.create the call stands for.
Mutated(i, r, created, l) ==
    /\ obj' = r.st.obj
    /\ heap' = r.st.heap
    /\ last' = l
    /\ latest' = IF r.threw THEN latest
                 ELSE [latest EXCEPT ![i] = Supersede(@, created.cookie)]
    /\ generators' = Disturbed(i, r.st)
    /\ UNCHANGED pushed

\* i.set(name, value)
Set(i, name, value) ==
    /\ Call
    /\ Alive(i)
    /\ LET r == setNameValue(St, i, name, value)
       IN  Mutated(i, r, CookieCreate(NameValueOptions(name, value)),
                   [op |-> "set", map |-> i, name |-> name, value |-> value,
                    threw |-> r.threw])

\* i.set(name), the value left out
SetNoValue(i, name) ==
    /\ Call
    /\ Alive(i)
    /\ LET r == setNameOnly(St, i, name)
       IN  /\ obj' = r.st.obj
           /\ heap' = r.st.heap
           /\ last' = [op |-> "setNoValue", map |-> i, name |-> name,
                       threw |-> r.threw]
    /\ UNCHANGED <<latest, pushed, generators>>

\* Cookie.create(options), by the caller
Create(options) ==
    /\ Call
    /\ last' = Outcome("create", options, CookieCreate(options))
    /\ UNCHANGED <<obj, heap, latest, pushed, generators>>

\* Cookie.parse(cookieString), by the caller
Parse(cookieString) ==
    /\ Call
    /\ last' = Outcome("parse", cookieString, CookieParse(cookieString))
    /\ UNCHANGED <<obj, heap, latest, pushed, generators>>

\* i.set(cookie), with the Cookie the caller has just created or parsed
SetCookie(i) ==
    /\ Call
    /\ Alive(i)
    /\ last.op \in {"create", "parse"}
    /\ ~last.threw
    /\ LET r == setCookie(St, i, last.cookies[1])
       IN  Mutated(i, r, [threw |-> FALSE, cookie |-> last.cookies[1]],
                   [op |-> "setCookie", map |-> i,
                    name |-> last.cookies[1].name,
                    value |-> last.cookies[1].value, threw |-> r.threw])

\* i.delete(name) or i.delete({name, domain, path})
Delete(i, opts) ==
    /\ Call
    /\ Alive(i)
    /\ LET r == delete(St, i, opts)
       IN  Mutated(i, r, CookieCreate(DeleteOptions(opts)),
                   [op |-> "delete", map |-> i, name |-> opts.name,
                    opts |-> opts, threw |-> r.threw, ret |-> r.ret])

\* j = i.clone()
Clone(i, j) ==
    /\ Call
    /\ Alive(i)
    /\ i # j
    /\ LET st == clone(St, i, j)
       IN  /\ obj' = st.obj
           /\ heap' = st.heap
           /\ generators' = Disturbed(j, st)
    /\ last' = [op |-> "clone", map |-> i, to |-> j, threw |-> FALSE]
    /\ latest' = [latest EXCEPT ![j] = latest[i]]
    /\ UNCHANGED pushed

\* i.clear()
Clear(i) ==
    /\ Call
    /\ Alive(i)
    /\ LET st == clear(St, i)
       IN  /\ obj' = st.obj
           /\ heap' = st.heap
           /\ generators' = Disturbed(i, st)
    /\ last' = [op |-> "clear", map |-> i, threw |-> FALSE]
    /\ latest' = [latest EXCEPT ![i] = << >>]
    /\ UNCHANGED pushed

\* writeSetCookieHeaders(i, headers)
WriteHeaders(i, headers) ==
    /\ Call
    /\ Alive(i)
    /\ LET r == writeSetCookieHeaders(St, i, headers)
       IN  last' = [op |-> "writeSetCookieHeaders", map |-> i,
                    before |-> headers, threw |-> r.threw,
                    after |-> r.headers]
    /\ UNCHANGED <<obj, heap, latest, pushed, generators>>

Next ==
    \/ \E i \in MapIds, name \in Names, value \in SetValues : Set(i, name, value)
    \/ \E i \in MapIds, name \in Names : SetNoValue(i, name)
    \/ \E options \in CreateOptions : Create(options)
    \/ \E cookieString \in ParseStrings : Parse(cookieString)
    \/ \E i \in MapIds : SetCookie(i)
    \/ \E i \in MapIds, opts \in DeleteArgs : Delete(i, opts)
    \/ \E i \in MapIds, j \in MapIds : Clone(i, j)
    \/ \E i \in MapIds : Clear(i)
    \/ \E i \in MapIds, headers \in HeadersBefore : WriteHeaders(i, headers)

Spec == Init /\ [][Next]_vars


-----------------------------------------------------------------------------
(* CookieMap: traversal *)

\* A traversal is a generator object of [Symbol.iterator], entries, keys or
\* values: suspended at its start, at a yield of the loop over modifiedCookies
\* or of the loop over originalCookies, or done.  Each loop reads its field
\* when it begins and walks that array by index.  The array is held by value:
\* after construction every push is to an array the same call has just
\* created (removeInternal assigns new arrays before set and delete push), so
\* no array a traversal walks is ever changed in place.
IterKinds == {"iterator", "entries", "keys", "values"}

\* What a traversal of a kind yields for a pair: the pair, [key, value], the
\* key or the value.
Yield(kind, pair) ==
    CASE kind = "iterator" -> pair
      [] kind = "entries" -> << pair.key, pair.value >>
      [] kind = "keys" -> pair.key
      [] kind = "values" -> pair.value

\* The generator object a call of [Symbol.iterator](), entries(), keys() or
\* values() on map i returns: nothing has run yet.
NewGenerator(i, kind) ==
    [map |-> i, kind |-> kind, phase |-> "start", array |-> << >>,
     index |-> 0, yielded |-> << >>, clean |-> TRUE]

\* The loop over originalCookies from index k on: it yields the entry at k,
\* or the generator returns.
LoopOriginal(g, original, k) ==
    IF k < Len(original)
    THEN [g EXCEPT !.phase = "original", !.array = original,
                   !.index = k + 1,
                   !.yielded = Append(@, Yield(g.kind, original[k + 1]))]
    ELSE [g EXCEPT !.phase = "done", !.array = << >>, !.index = 0]

\* A traversal that never leaves the loop over modifiedCookies: C12 does not
\* hold of it.
ReturnAfterModified(g, st) ==
    [g EXCEPT !.phase = "done", !.array = << >>, !.index = 0]

\* The loop over modifiedCookies is over: the loop over originalCookies
\* begins, on the array the field refers to now.
ThenOriginal(g, st) == LoopOriginal(g, OriginalOf(st, g.map), 0)

\* The loop over modifiedCookies from index k on: it yields the first cookie
\* with a value.
RECURSIVE LoopModified(_, _, _, _)
LoopModified(g, st, modified, k) ==
    IF k >= Len(modified) THEN ThenOriginal(g, st)
    ELSE IF HasValue(modified[k + 1])
    THEN [g EXCEPT !.phase = "modified", !.array = modified,
                   !.index = k + 1,
                   !.yielded = Append(@,
                       Yield(g.kind, [key |-> modified[k + 1].name,
                                      value |-> modified[k + 1].value]))]
    ELSE LoopModified(g, st, modified, k + 1)

\* generator.next(): the generator runs to its next yield or to its end.
GeneratorNext(g, st) ==
    CASE g.phase = "start" -> LoopModified(g, st, ModifiedOf(st, g.map), 0)
      [] g.phase = "modified" -> LoopModified(g, st, g.array, g.index)
      [] g.phase = "original" -> LoopOriginal(g, g.array, g.index)
      [] g.phase = "done" -> g

\* i[Symbol.iterator](), i.entries(), i.keys() or i.values()
IterOpen(i, kind) ==
    /\ Call
    /\ Alive(i)
    /\ generators' = Append(generators, NewGenerator(i, kind))
    /\ last' = [op |-> "open", map |-> i, kind |-> kind, threw |-> FALSE]
    /\ UNCHANGED <<obj, heap, latest, pushed>>

\* next() of the k-th traversal; a call on the generator, not on the map
IterNext(k) ==
    /\ generators[k].phase # "done"
    /\ generators' = [generators EXCEPT ![k] = GeneratorNext(@, St)]
    /\ last' = [op |-> "next", map |-> generators[k].map, threw |-> FALSE]
    /\ UNCHANGED <<obj, heap, latest, pushed, calls>>

\* The names and the delete arguments of the calls between the steps of the
\* traversals.
IterNames == {NameA, NameB}

NextIterate ==
    \/ \E name \in IterNames, value \in SetValues : Set("m", name, value)
    \/ \E name \in IterNames :
           Delete("m", [name |-> name, domain |-> << >>, path |-> << >>])
    \/ Clear("m")
    \/ \E kind \in IterKinds : IterOpen("m", kind)
    \/ \E k \in 1..Len(generators) : IterNext(k)

SpecIterate == Init /\ [][NextIterate]_vars
-----------------------------------------------------------------------------
(* Cookie.parse and Cookie.toString on their own *)

\* The cookie pairs of the Set-Cookie strings: "a=1", " a = b c ", "a=",
\* "a=b=c", "=1", " =1", "a", "a b=1" and the empty string.
ParsePairTexts ==
    { << 97, 61, 49 >>, << 32, 97, 32, 61, 32, 98, 32, 99, 32 >>, << 97,
          61 >>, << 97, 61, 98, 61, 99 >>, << 61, 49 >>, << 32, 61, 49 >>,
                << 97 >>,
      << 97, 32, 98, 61, 49 >>, << >> }

\* The attributes of the Set-Cookie strings: "Max-Age=60",
\* "Expires=Thu, 15 Jan 1970 00:00:00 GMT", "expires=soon", "Max-Age=0",
\* "Domain=X.y", "domain=x_y", "Path=/p", "Path=/<", "path=p",
\* " Secure ", "SameSite=none", "Max-Age=-5" and the empty attribute.
AttrMaxAge60 == << 77, 97, 120, 45, 65, 103, 101, 61, 54, 48 >>

AttrExpiresJan15 == << 69, 120, 112, 105, 114, 101, 115, 61 >> \o DateJan15

ParseAttributeTexts ==
    { AttrMaxAge60, AttrExpiresJan15, << 101, 120, 112, 105, 114, 101, 115,
          61, 115, 111, 111, 110 >>, << 77, 97, 120, 45, 65, 103, 101, 61,
                48 >>,
      << 68, 111, 109, 97, 105, 110, 61, 88, 46, 121 >>, << 100, 111, 109,
            97, 105, 110, 61, 120, 95, 121 >>, << 80, 97, 116, 104, 61, 47,
                  112 >>, << 80, 97, 116, 104, 61, 47, 60 >>, << 112, 97,
                        116, 104, 61, 112 >>,
      << 32, 83, 101, 99, 117, 114, 101, 32 >>, << 83, 97, 109, 101, 83, 105,
            116, 101, 61, 110, 111, 110, 101 >>, << 77, 97, 120, 45, 65, 103,
                  101, 61, 45, 53 >>, << >> }

\* The number of attributes a Set-Cookie string of the model has at most.
MaxAttributes == 2

AttributeLists ==
    UNION {[1..n -> ParseAttributeTexts] : n \in 0..MaxAttributes}

\* The Set-Cookie string of a cookie pair and its attributes, each attribute
\* after a ";".
RECURSIVE SetCookieText(_, _)
SetCookieText(pair, attributes) ==
    IF Len(attributes) = 0 THEN pair
    ELSE SetCookieText(pair \o << 59 >> \o attributes[1], Tail(attributes))

\* The name / value options of the round trip: the names "a", "__proto__" and
\* "a b";
\* the values "1", "hello world", "", " x ", "a;b=c", "%41", "<U+00E9>" and
\* a surrogate pair.
RoundTripOptions ==
    { NameValueOptions(n, v) :
        n \in {NameA, ProtoKey, BadName},
        v \in { << 49 >>, << 104, 101, 108, 108, 111, 32, 119, 111, 114, 108,
              100 >>, << >>, << 32, 120, 32 >>, << 97, 59, 98, 61, 99 >>,
                    << 37, 52, 49 >>,
                << 233 >>, << 55357, 56832 >> } }

\* The caller is about to parse a string or to create a Cookie.
InitParse ==
    /\ obj = NoState.obj
    /\ heap = NoState.heap
    /\ latest = [i \in MapIds |-> << >>]
    /\ pushed = << >>
    /\ calls = 0
    /\ generators = << >>
    /\ \/ \E pair \in ParsePairTexts, attributes \in AttributeLists :
              last = [op |-> "string", pair |-> pair,
                      attributes |-> attributes,
                      input |-> SetCookieText(pair, attributes)]
       \/ \E options \in RoundTripOptions :
              last = [op |-> "options", input |-> options]

\* Cookie.parse(s) of the string at hand
ParseString ==
    /\ last.op = "string"
    /\ last' = Outcome("parsed", last.input, CookieParse(last.input)) @@ last
    /\ calls' = calls + 1
    /\ UNCHANGED <<obj, heap, latest, pushed, generators>>

\* Cookie.create(options) of the options at hand
CreateFromOptions ==
    /\ last.op = "options"
    /\ last' = Outcome("created", last.input, CookieCreate(last.input))
    /\ calls' = calls + 1
    /\ UNCHANGED <<obj, heap, latest, pushed, generators>>

\* cookie.toString() of the Cookie just created
ToStringCreated ==
    /\ last.op = "created"
    /\ ~last.threw
    /\ last' = [op |-> "toString", cookie |-> last.cookies[1],
                threw |-> ToStringThrows(last.cookies[1]),
                text |-> IF ToStringThrows(last.cookies[1]) THEN << >>
                         ELSE CookieToString(last.cookies[1])]
    /\ calls' = calls + 1
    /\ UNCHANGED <<obj, heap, latest, pushed, generators>>

\* Cookie.parse(text) of the text toString has just returned
ParseText ==
    /\ last.op = "toString"
    /\ ~last.threw
    /\ last' = Outcome("reparsed", last.text, CookieParse(last.text)) @@ last
    /\ calls' = calls + 1
    /\ UNCHANGED <<obj, heap, latest, pushed, generators>>

NextParse ==
    \/ ParseString
    \/ CreateFromOptions
    \/ ToStringCreated
    \/ ParseText

SpecParse == InitParse /\ [][NextParse]_vars

-----------------------------------------------------------------------------
(* new CookieMap(cookieHeader) on its own *)

\* The ";"-separated segments of the Cookie headers: "a=1", " b = x y ",
\* "novalue", "=1", " =2", "p=%41", "n=100%", "%6E=%C3%A9", "e=%C3" and the
\* empty segment.
HeaderSegments ==
    { << 97, 61, 49 >>, << 32, 98, 32, 61, 32, 120, 32, 121, 32 >>, << 110,
          111, 118, 97, 108, 117, 101 >>, << 61, 49 >>, << 32, 61, 50 >>,
                << 112, 61, 37, 52, 49 >>,
      << 110, 61, 49, 48, 48, 37 >>, << 37, 54, 69, 61, 37, 67, 51, 37, 65,
            57 >>, << 101, 61, 37, 67, 51 >>, << >> }

\* The number of segments a Cookie header of the model has at most.
MaxSegments == 3

SegmentLists == UNION {[1..n -> HeaderSegments] : n \in 0..MaxSegments}

\* The caller is about to construct a CookieMap from a Cookie header.
InitHeader ==
    /\ obj = NoState.obj
    /\ heap = NoState.heap
    /\ latest = [i \in MapIds |-> << >>]
    /\ pushed = << >>
    /\ calls = 0
    /\ generators = << >>
    /\ \E segments \in SegmentLists :
           last = [op |-> "header", segments |-> segments,
                   input |-> [kind |-> "string",
                              s |-> join(segments, << 59 >>)]]

\* m = new CookieMap(cookieHeader), its initialize having had the outcome r
ConstructedFromHeader(r, st) ==
    /\ obj' = st.obj
    /\ heap' = st.heap
    /\ last' = [op |-> "new", map |-> "m", threw |-> r.threw] @@ last
    /\ pushed' = r.pushed
    /\ calls' = calls + 1
    /\ UNCHANGED <<latest, generators>>

InitializedFromHeader(r) ==
    ConstructedFromHeader(r, Constructed(NoState, "m", r))

ConstructFromHeader ==
    /\ last.op = "header"
    /\ InitializedFromHeader(initialize(last.input))

NextHeader == ConstructFromHeader

SpecHeader == InitHeader /\ [][NextHeader]_vars


-----------------------------------------------------------------------------
(* Cookie.isValidCookieName on its own *)

\* The characters of the names: "a", "!", "~", ":", "<", ">", the space, the
\* double quote, the comma, the semicolon, the backslash, "=", DEL, the
\* controls TAB and U+001F, and U+0080.
NameCharacters ==
    {97, 33, 126, 58, 60, 62, 32, 34, 44, 59, 92, 61, 127, 9, 31, 128}

\* The number of characters a name of the model has at most.
MaxNameLength == 2

NameTexts == UNION {[1..n -> NameCharacters] : n \in 0..MaxNameLength}

\* The caller is about to validate a name.
InitName ==
    /\ obj = NoState.obj
    /\ heap = NoState.heap
    /\ latest = [i \in MapIds |-> << >>]
    /\ pushed = << >>
    /\ calls = 0
    /\ generators = << >>
    /\ \E name \in NameTexts : last = [op |-> "name", input |-> name]

\* Cookie.isValidCookieName(name) of the name at hand
ValidateName ==
    /\ last.op = "name"
    /\ last' = [op |-> "isValidCookieName", input |-> last.input,
                threw |-> FALSE, ret |-> isValidCookieName(last.input)]
    /\ calls' = calls + 1
    /\ UNCHANGED <<obj, heap, latest, pushed, generators>>

NextName == ValidateName

SpecName == InitName /\ [][NextName]_vars
-----------------------------------------------------------------------------
(* Properties of the CookieMap machine *)

\* The positions of the entries of a name in the two sequences.
KeysNamed(original, n) == {k \in 1..Len(original) : original[k].key = n}

CookiesNamed(modified, n) == {k \in 1..Len(modified) : modified[k].name = n}

\* The names that occur in map i.
NamesIn(i) ==
    {OriginalOf(St, i)[k].key : k \in 1..Len(OriginalOf(St, i))}
        \cup {ModifiedOf(St, i)[k].name : k \in 1..Len(ModifiedOf(St, i))}

\* C1, as the specification states it: in every reachable state every name has
\* at most one entry across the original and the modified sequence of a map,
\* taken together.
C1_OneEntryPerName ==
    \A i \in MapIds :
        Alive(i) =>
            \A n \in NamesIn(i) :
                Cardinality(KeysNamed(OriginalOf(St, i), n))
                    + Cardinality(CookiesNamed(ModifiedOf(St, i), n)) <= 1

\* C1, amended: in every reachable state the modified sequence of a map holds
\* at most one entry per name, a name with a modified entry has no original
\* entry, and the original sequence holds a name no more often than the
\* constructor input gave it (the constructor keeps every pair of its input,
\* repeated names included).
C1_OneEntryPerTouchedName ==
    \A i \in MapIds :
        Alive(i) =>
            \A n \in NamesIn(i) :
                /\ Cardinality(CookiesNamed(ModifiedOf(St, i), n)) <= 1
                /\ CookiesNamed(ModifiedOf(St, i), n) # {}
                       => KeysNamed(OriginalOf(St, i), n) = {}
                /\ Cardinality(KeysNamed(OriginalOf(St, i), n))
                       <= Cardinality(KeysNamed(pushed, n))

\* C1, its case: after a set or delete that returned, m still holds a name
\* twice in its original sequence, beside a modified entry.
C1_RepeatedNameBesideChange ==
    /\ last.op \in {"set", "delete"}
    /\ ~last.threw
    /\ last.map = "m"
    /\ Len(ModifiedOf(St, "m")) > 0
    /\ \E n \in NamesIn("m") :
           Cardinality(KeysNamed(OriginalOf(St, "m"), n)) = 2

\* C2, as the specification states it: right after set(n, v), or set of a
\* Cookie named n with value v, for a valid name n and a non-empty v, get(n)
\* is v, has(n) is true and toJSON()[n] is v.
C2_SetThenRead ==
    (/\ last.op \in {"set", "setCookie"}
     /\ ~last.threw
     /\ isValidCookieName(last.name)
     /\ last.value # << >>)
        => /\ get(St, last.map, last.name) = last.value
           /\ has(St, last.map, last.name)
           /\ ObjGet(toJSON(St, last.map), last.name) = last.value

\* C2, its failing case: set("__proto__", "2") has returned.
C2_SetProtoKey ==
    /\ last.op = "set"
    /\ ~last.threw
    /\ last.name = ProtoKey
    /\ last.value # << >>

\* C3: right after delete(n) for a valid name n (the call returns whenever
\* only the name is given): has(n) is false, get(n) is absent, the object
\* toJSON() returns has no key n of its own, no original entry named n
\* remains, and getAllChanges() holds exactly one Cookie named n, the delete
\* marker with value "" and expires = 1.
C3_DeleteThenRead ==
    (last.op = "delete" /\ isValidCookieName(last.name))
        => /\ (last.opts.domain = << >> /\ last.opts.path = << >>)
                  => ~last.threw
           /\ ~last.threw =>
                /\ ~has(St, last.map, last.name)
                /\ get(St, last.map, last.name) = Undefined
                /\ last.name \notin DOMAIN toJSON(St, last.map)
                /\ KeysNamed(OriginalOf(St, last.map), last.name) = {}
                /\ Cardinality(CookiesNamed(getAllChanges(St, last.map),
                                            last.name)) = 1
                /\ \A k \in CookiesNamed(getAllChanges(St, last.map),
                                         last.name) :
                       /\ getAllChanges(St, last.map)[k].value = << >>
                       /\ getAllChanges(St, last.map)[k].expires = 1

\* C3, its case: a delete of a cookie the map had has returned true.
C3_DeletedPresentCookie ==
    /\ last.op = "delete"
    /\ ~last.threw
    /\ last.ret = TRUE
    /\ isValidCookieName(last.name)

\* The headers writeSetCookieHeaders is to leave: one per change, in order.
RECURSIVE HeadersOf(_)
HeadersOf(changes) ==
    IF Len(changes) = 0 THEN << >>
    ELSE << CookieToString(changes[1]) >> \o HeadersOf(Tail(changes))

\* C4, as the specification states it: in every reachable state
\* getAllChanges() is, for each name touched since construction or the last
\* clear, the Cookie of its latest set / delete call, ordered by those calls
\* (so a cookie of the constructor input is never in it), and
\* writeSetCookieHeaders appends exactly one Set-Cookie header per entry of
\* that list, in that order.
C4_ChangesAreLatestCalls ==
    /\ \A i \in MapIds : Alive(i) => getAllChanges(St, i) = latest[i]
    /\ last.op = "writeSetCookieHeaders"
           => /\ ~last.threw
              /\ last.after
                     = last.before \o HeadersOf(getAllChanges(St, last.map))

\* C4, its failing case: a delete has thrown on a map that had changes.
C4_DeleteThrewAfterChanges ==
    /\ last.op = "delete"
    /\ last.threw
    /\ latest[last.map] # << >>

\* What a caller can observe of map j.
Observe(j) ==
    [ get |-> [n \in Names |-> get(St, j, n)],
      has |-> [n \in Names |-> has(St, j, n)],
      getAll |-> getAll(St, j),
      size |-> size(St, j),
      toJSON |-> toJSON(St, j),
      getAllChanges |-> getAllChanges(St, j) ]

\* C5: right after c = m.clone() both maps have the same original and the
\* same modified sequence and m is as it was, and every set, delete and clear
\* on one map leaves every observable result (get, has, getAll, size, toJSON,
\* getAllChanges) of every other map unchanged.
C5_CloneIsIndependent ==
    [][\A i \in MapIds : \A j \in MapIds \ {i} :
          /\ (last'.op = "clone" /\ last'.map = i /\ last'.to = j)
                 => /\ Alive(j)'
                    /\ OriginalOf(St, j)' = OriginalOf(St, i)'
                    /\ ModifiedOf(St, j)' = ModifiedOf(St, i)'
                    /\ Observe(i)' = Observe(i)
          /\ (/\ last'.op \in {"set", "setNoValue", "setCookie", "delete",
                              "clear"}
              /\ last'.map = i
              /\ Alive(j))
                 => Alive(j)' /\ Observe(j)' = Observe(j)]_vars

\* C5, its case: a set or delete on one map has returned while the other map,
\* its clone or its source, holds cookies the call's map does not.
C5_MapsDiverged ==
    /\ last.op \in {"set", "delete"}
    /\ ~last.threw
    /\ \A i \in MapIds : Alive(i)
    /\ getAll(St, "m") # getAll(St, "c")
    /\ getAllChanges(St, "m") # getAllChanges(St, "c")
    /\ getAllChanges(St, "c") # << >>

\* A Cookie that satisfies the three checks of the constructor.
ValidCookie(cookie) ==
    /\ isValidCookieName(cookie.name)
    /\ isValidCookieDomain(cookie.domain)
    /\ cookie.path # << >>
    /\ isValidCookiePath(cookie.path)

\* C9: Cookie.create fails whenever the name is invalid or a non-empty path
\* or domain fails its validator, and every Cookie that exists (one the caller
\* has created or parsed, every entry of a modified sequence) has a valid
\* non-empty name, a valid domain and a valid non-empty path.
C9_CookiesAreValid ==
    /\ \A i \in MapIds :
           Alive(i) =>
               \A k \in 1..Len(ModifiedOf(St, i)) :
                   ValidCookie(ModifiedOf(St, i)[k])
    /\ last.op \in {"create", "parse"}
           => \A k \in 1..Len(last.cookies) : ValidCookie(last.cookies[k])
    /\ last.op = "create"
           => (last.threw <=>
                  \/ ~isValidCookieName(last.input.name)
                  \/ (last.input.path # << >>
                          /\ ~isValidCookiePath(last.input.path))
                  \/ (last.input.domain # << >>
                          /\ ~isValidCookieDomain(last.input.domain)))

\* C9, its case: a Cookie.create with an invalid domain has failed while a
\* map holds modified entries.
C9_CreateRefused ==
    /\ last.op = "create"
    /\ last.threw
    /\ isValidCookieName(last.input.name)
    /\ \E i \in MapIds : Alive(i) /\ Len(ModifiedOf(St, i)) > 0


\* C11: a delete(n) that returns, returns true exactly when has(n) was true
\* right before the call; so it returns false for a name the map has never
\* held, and for a name whose modified entry has an empty value (a delete
\* marker, or a cookie set to "").
C11_DeleteReturnsHad ==
    [][\A i \in MapIds :
          (last'.op = "delete" /\ last'.map = i /\ ~last'.threw)
              => /\ last'.ret = has(St, i, last'.name)
                 /\ last'.name \notin NamesIn(i) => last'.ret = FALSE
                 /\ (\E k \in CookiesNamed(ModifiedOf(St, i), last'.name) :
                        ModifiedOf(St, i)[k].value = << >>)
                        => last'.ret = FALSE]_vars

\* C11, its case: a delete of a name of the constructor input has returned
\* false, the name having been deleted or set to "" before.
C11_DeletedAgain ==
    /\ last.op = "delete"
    /\ ~last.threw
    /\ last.ret = FALSE
    /\ last.map = "m"
    /\ KeysNamed(pushed, last.name) # {}

\* What a traversal of a kind is to yield for a sequence of pairs.
Projected(kind, pairs) == [k \in 1..Len(pairs) |-> Yield(kind, pairs[k])]

\* The names of the delete markers of map i.
MarkerNames(i) ==
    {ModifiedOf(St, i)[k].name :
        k \in {j \in 1..Len(ModifiedOf(St, i)) :
                  ModifiedOf(St, i)[j].value = << >>}}

C15_FailingCallIsAtomic ==
    [][\A i \in MapIds :
          (/\ last'.op \in {"set", "setNoValue", "delete"}
           /\ last'.map = i
           /\ last'.threw)
              => /\ OriginalOf(St, i)' = OriginalOf(St, i)
                 /\ ModifiedOf(St, i)' = ModifiedOf(St, i)]_vars

\* C15, its failing case: a delete of a name of the constructor input has
\* thrown, on its domain or its path.
C15_DeleteOfOriginalThrew ==
    /\ last.op = "delete"
    /\ last.threw
    /\ isValidCookieName(last.name)
    /\ KeysNamed(pushed, last.name) # {}

\* C16: a set or delete call on the name n, whether it returns or throws,
\* adds no entry to the original sequence and leaves the entries of every
\* other name in both sequences, with their values and in their order; so
\* get of every other name is unchanged.
C16_OtherNamesUntouched ==
    [][\A i \in MapIds :
          (/\ last'.op \in {"set", "setNoValue", "setCookie", "delete"}
           /\ last'.map = i)
              => /\ Len(OriginalOf(St, i)') <= Len(OriginalOf(St, i))
                 /\ filterKey(OriginalOf(St, i)', last'.name)
                        = filterKey(OriginalOf(St, i), last'.name)
                 /\ filterName(ModifiedOf(St, i)', last'.name)
                        = filterName(ModifiedOf(St, i), last'.name)
                 /\ \A n \in Names \ {last'.name} :
                        get(St, i, n)' = get(St, i, n)]_vars

\* C16, its case: a set or delete has returned on a map that holds an
\* original entry and a modified entry of other names.
C16_OtherNamesPresent ==
    /\ last.op \in {"set", "delete"}
    /\ ~last.threw
    /\ filterKey(OriginalOf(St, last.map), last.name) # << >>
    /\ filterName(ModifiedOf(St, last.map), last.name) # << >>

\* C17, as the specification states it: in every reachable state, maps built
\* from an input that repeats a name included, the object toJSON() returns
\* has a key n of its own exactly when has(n) is true, and then toJSON()[n]
\* is get(n), for every name n.
C17_JsonAgreesWithGet ==
    \A i \in MapIds :
        Alive(i) =>
            \A n \in Names :
                /\ n \in DOMAIN toJSON(St, i) <=> has(St, i, n)
                /\ has(St, i, n) => ObjGet(toJSON(St, i), n) = get(St, i, n)

\* C17, its failing case: m holds a cookie named "__proto__".
C17_ProtoKeyHeld ==
    /\ Alive("m")
    /\ has(St, "m", ProtoKey)
-----------------------------------------------------------------------------
(* Properties of Cookie.parse and Cookie.toString *)

\* The elements of a sequence.
Range(seq) == {seq[k] : k \in 1..Len(seq)}

\* C6, as the specification states it: a Set-Cookie string that holds both
\* Max-Age=60 and an Expires with a parsable date parses to a cookie with
\* maxAge = 60 and expires unset (-1), whichever of the two comes first.
C6_MaxAgeBeatsExpires ==
    (/\ last.op = "parsed"
     /\ ~last.threw
     /\ AttrMaxAge60 \in Range(last.attributes)
     /\ AttrExpiresJan15 \in Range(last.attributes))
        => /\ last.cookies[1].maxAge = << 60 >>
           /\ last.cookies[1].expires = EMPTY_EXPIRES_VALUE

\* C6, its failing case: the string has Expires before Max-Age=60.
C6_ExpiresBeforeMaxAge ==
    /\ last.op = "parsed"
    /\ ~last.threw
    /\ last.attributes = << AttrExpiresJan15, AttrMaxAge60 >>

\* C7, as the specification states it: for a Cookie c created from a valid
\* name and any value alone, Cookie.parse(c.toString()) has the name and the
\* value of c, with domain "", path "/" and sameSite Lax.
C7_RoundTrip ==
    /\ last.op = "toString" => ~last.threw
    /\ last.op = "reparsed"
           => /\ ~last.threw
              /\ last.cookies[1].name = last.cookie.name
              /\ last.cookies[1].value = last.cookie.value
              /\ last.cookies[1].domain = << >>
              /\ last.cookies[1].path = << 47 >>
              /\ last.cookies[1].sameSite = "Lax"

\* C7, its failing case: the text of a cookie whose value toString had to
\* encode has been parsed.
C7_EncodedValueParsed ==
    /\ last.op = "reparsed"
    /\ ~last.threw
    /\ encodeURIComponent(last.cookie.value) # last.cookie.value

\* The text before and after the first "=" of a cookie pair that has one,
\* trimmed.
PairName(pair) ==
    trim(SubSeq(pair, 1, Least({k \in 1..Len(pair) : pair[k] = 61}) - 1))

PairValue(pair) ==
    trim(SubSeq(pair, Least({k \in 1..Len(pair) : pair[k] = 61}) + 1,
                Len(pair)))

\* C8: Cookie.parse(s) fails exactly when s has length < 2, or the part of s
\* before the first ";" holds no "=", or the trimmed name before the first "="
\* is empty, or the name, the lower-cased domain or the path that results
\* fails its validator; otherwise it returns a Cookie whose name and value are
\* the trimmed text before and after the first "=" of the cookie pair.
C8_ParseFailsExactlyWhen ==
    last.op = "parsed" =>
        /\ last.threw <=>
              \/ Len(last.input) < 2
              \/ 61 \notin Range(last.pair)
              \/ PairName(last.pair) = << >>
              \/ ~isValidCookieName(PairName(last.pair))
              \/ ~isValidCookieDomain(
                     ParseAttributes(ParseLocals, last.attributes).domain)
              \/ ~isValidCookiePath(
                     ParseAttributes(ParseLocals, last.attributes).path)
        /\ ~last.threw =>
              /\ last.cookies[1].name = PairName(last.pair)
              /\ last.cookies[1].value = PairValue(last.pair)

\* C8, its case: a string with a well-formed cookie pair has failed to parse,
\* on an attribute.
C8_AttributeRefused ==
    /\ last.op = "parsed"
    /\ last.threw
    /\ last.pair = NameA \o << 61, 49 >>
    /\ Len(last.attributes) = 2


\* The Max-Age values of the strings, and the token of a value.
MaxAgeValues == {60, 0, -5}

MaxAgeToken(n) == << 77, 97, 120, 45, 65, 103, 101, 61 >> \o NumberToString(n)

IsMaxAgeToken(attribute) == \E n \in MaxAgeValues : attribute = MaxAgeToken(n)

\* text.includes(part)
Contains(text, part) ==
    \E k \in 0..(Len(text) - Len(part)) :
        SubSeq(text, k + 1, k + Len(part)) = part

\* C14, as the specification states it: for every integer n, 0 and the
\* negative ones included, Cookie.parse of a string whose only max-age token
\* is Max-Age=n returns a cookie with maxAge = n whose toString() contains
\* "Max-Age=n".
C14_MaxAgeKept ==
    \A n \in MaxAgeValues :
        (/\ last.op = "parsed"
         /\ ~last.threw
         /\ SelectSeq(last.attributes, IsMaxAgeToken) = << MaxAgeToken(n) >>)
            => /\ last.cookies[1].maxAge = << n >>
               /\ ~ToStringThrows(last.cookies[1])
               /\ Contains(CookieToString(last.cookies[1]), MaxAgeToken(n))

\* C14, its failing case: a string whose only attribute is Max-Age=0 has been
\* parsed.
C14_MaxAgeZeroParsed ==
    /\ last.op = "parsed"
    /\ ~last.threw
    /\ last.attributes = << MaxAgeToken(0) >>
-----------------------------------------------------------------------------
(* Properties of new CookieMap(cookieHeader) *)

\* The segments that are stored: those with an "=" and a non-empty trimmed
\* name before it.
IsStored(segment) == 61 \in Range(segment) /\ PairName(segment) # << >>

\* The entry of a stored segment: decoded when decoding is on and both its
\* name and its value decode, its raw trimmed text otherwise.
DecodesBoth(segment) ==
    /\ decodeURIComponent(PairName(segment)).ok
    /\ decodeURIComponent(PairValue(segment)).ok

EntryOf(segment, decoding) ==
    IF decoding /\ DecodesBoth(segment)
    THEN [key |-> decodeURIComponent(PairName(segment)).s,
          value |-> decodeURIComponent(PairValue(segment)).s]
    ELSE [key |-> PairName(segment), value |-> PairValue(segment)]

EntriesOf(segments, decoding) ==
    [k \in 1..Len(segments) |-> EntryOf(segments[k], decoding)]

\* C10: constructing a CookieMap from a Cookie-header string never fails;
\* segments without "=" or with an empty trimmed name are skipped; when the
\* string holds a "%" anywhere, the name and the value of each pair are
\* percent-decoded together and a pair of which either fails to decode is
\* stored as its raw trimmed text, that pair alone; when the string holds no
\* "%", every pair is stored as its raw trimmed text.
C10_HeaderNeverFails ==
    last.op = "new" =>
        /\ ~last.threw
        /\ Alive("m")
        /\ OriginalOf(St, "m")
               = EntriesOf(SelectSeq(last.segments, IsStored),
                           \E k \in 1..Len(last.segments) :
                               37 \in Range(last.segments[k]))
        /\ ModifiedOf(St, "m") = << >>

\* C10, its case: a map is constructed from a header of which one pair is
\* stored raw ("n" with "100%") and another decoded ("p" with "A").
C10_RawBesideDecoded ==
    /\ last.op = "new"
    /\ ~last.threw
    /\ [key |-> << 110 >>, value |-> << 49, 48, 48,
          37 >>] \in Range(OriginalOf(St, "m"))
    /\ [key |-> << 112 >>, value |-> << 65 >>] \in Range(OriginalOf(St, "m"))


-----------------------------------------------------------------------------
(* Properties of Cookie.isValidCookieName *)

\* The control characters (U+0000 to U+001F) and DEL.
Controls == (0..31) \cup {127}

\* C13, as the specification states it: isValidCookieName(name) is false for
\* the empty name and for every name that holds a space, a double quote, a
\* comma, a semicolon, a backslash, "=", DEL or a control character.
C13_NameRefusedAsStated ==
    (/\ last.op = "isValidCookieName"
     /\ \/ last.input = << >>
        \/ Range(last.input) \cap ({32, 34, 44, 59, 92, 61} \cup Controls) # {})
        => last.ret = FALSE

\* C13, amended: isValidCookieName(name) is false for the empty name and for
\* every name that holds a space, a semicolon, "=", DEL or a control
\* character.
C13_NameRefused ==
    (/\ last.op = "isValidCookieName"
     /\ \/ last.input = << >>
        \/ Range(last.input) \cap ({32, 59, 61} \cup Controls) # {})
        => last.ret = FALSE

\* C13, its case: a name of a letter and a semicolon has been refused.
C13_SemicolonRefused ==
    /\ last.op = "isValidCookieName"
    /\ last.input = << 97, 59 >>
    /\ last.ret = FALSE
=============================================================================
